---- MODULE Spec2Model ----
(***************************************************************************)
(* Model of the research job orchestration of gemini-deep-research:        *)
(*   - DeepResearchAgent.research / pollForCompletion / refineWithThinking *)
(*     (src/src/web/public/app.js, lines 2566-3031), and                   *)
(*   - the API routes that keep the in-memory registry researchResults /   *)
(*     researchAgents (src/developers_readme.md, lines 149-485).           *)
(* Node.js runs every handler to its next await without interleaving, so   *)
(* one action is the code between two suspension points.  closeSession()   *)
(* is awaited by the routes but the routes never call startSession(), so   *)
(* activeSession is null, closeSession() makes no network call and its     *)
(* await resumes in the same macrotask: it is not a point where another    *)
(* handler can run.                                                        *)
(***************************************************************************)
EXTENDS Integers, Sequences, FiniteSets, TLC

\* ---------------------------------------------------------------- bounds
MaxPolls == 10        \* polls of one job when the agent is run alone
MaxPollsShared == 1   \* polls of one job when two jobs share the registry

\* the ids the route issues (research_<time>_<random> in the code)
Jobs == {"research_1", "research_2"}

\* ------------------------------------------------------ program constants
POLL_INTERVAL == 10000
MAX_RESEARCH_TIME == 3600000

\* ------------------------------------------------------------ text values
\* A text is a sequence of tokens; joins insert a separator token.
BlankLine == "\n\n"
NewLine == "\n"
NoContentMsg == "Research completed but no content returned"
ResearchFailedMsg == "Research failed"
TimedOutMsg == "Research timed out after 60 minutes"
UnknownEventErrorMsg == "Unknown error occurred during research"
MetadataFooter == "\n---\n### Research Metadata"

\* Messages of the errors axios raises (HTTP error, network error, timeout).
TransportErrors ==
    {"Request failed with status code 500", "Network Error", "timeout of 30000ms exceeded"}

\* outputs of a completed interaction: each output has a text or none ("").
RemoteOutputs == {<<>>, <<"">>, <<"A">>, <<"A", "", "B">>}

\* error.message of a failed interaction ("" = no message given)
RemoteErrorMessages == {"", "quota exceeded"}

\* what a status poll can come back with
PollOutcomes ==
    [kind : {"processing"}]
    \cup [kind : {"completed"}, outputs : RemoteOutputs]
    \cup [kind : {"failed"}, message : RemoteErrorMessages]
    \cup [kind : {"throw"}, message : TransportErrors]

\* what the create call can come back with: a 2xx response whose body has an
\* id or a name (hasId) or neither, or an exception of axios
CreateOutcomes ==
    [kind : {"ok"}, hasId : BOOLEAN] \cup [kind : {"throw"}, message : TransportErrors]

\* parts of a generateContent candidate
ThoughtPart == [thought |-> TRUE, text |-> "T"]
AnswerPart1 == [thought |-> FALSE, text |-> "R1"]
AnswerPart2 == [thought |-> FALSE, text |-> "R2"]
RefineOutcomes ==
    [kind : {"throw", "fail", "noparts"}]
    \cup [kind : {"ok"},
          parts : {<<>>, <<ThoughtPart>>, <<ThoughtPart, AnswerPart1>>,
                   <<AnswerPart1, ThoughtPart, AnswerPart2>>}]

CancelOutcomes == {"success", "failure", "throw"}

\* the credential: not set, or a key
ApiKeys == {"", "KEY"}

VARIABLES
    researchResults,   \* Map resultId -> ResearchResult (the registry)
    researchAgents,    \* keys of the Map resultId -> agent
    pc,                \* where each job's background task is suspended
    refineWithThinking,\* request.options.refineWithThinking of each job
    elapsed,           \* Date.now() - startTime of each job
    progressPercent,   \* pollForCompletion's local progressPercent
    pollResult,        \* what pollForCompletion returned (held while refining)
    events,            \* the events passed to onEvent, in order
    result,            \* what research() returned
    calls,             \* remote calls issued for each job
    returns,           \* what came back from the remote calls of each job's task
    cancelPc,          \* where each job's cancel handler is
    deleted,           \* ids an existing entry of which was deleted
    submitResponse,    \* what POST /research answered for each job, and when
    apiKey,            \* process.env.GEMINI_API_KEY ("" when it is not set)
    rejection,         \* the answer to the last submit request turned down
    client,            \* one waitForCompletion call of the transport client
    cancelResponse,    \* what the cancel route answered for each job
    cancelRejection,   \* the answer to the last cancel request turned down, per id
    poller             \* the browser's pollForResults closure and its timers

vars == <<researchResults, researchAgents, pc, refineWithThinking, elapsed, progressPercent,
          pollResult, events, result, calls, returns, cancelPc, deleted, submitResponse,
          apiKey, rejection, client, cancelResponse, cancelRejection, poller>>

NoResult == [status |-> "none"]
\* no answer sent yet
NoResponse == [answered |-> FALSE]
\* the transport client before waitForCompletion is called
ClientIdle ==
    [pc |-> "idle", maxWaitTime |-> 0, elapsed |-> 0, requests |-> 0, fetches |-> 0,
     response |-> NoResult, fetched |-> <<>>, outcomes |-> <<>>, onProgress |-> 0,
     value |-> NoResult]
\* the browser before pollForResults is called
PollerIdle ==
    [pc |-> "idle", attempts |-> 0, consecutiveFailures |-> 0, timers |-> 0, delay |-> 0,
     continueOptions |-> 0, completions |-> 0, status |-> "none", failedRequests |-> 0]
NoCalls == [create |-> 0, poll |-> 0, refine |-> 0, cancel |-> 0]

\* ------------------------------------------------------------ Map helpers
MapSet(m, k, v) == [x \in (DOMAIN m) \cup {k} |-> IF x = k THEN v ELSE m[x]]
MapDelete(m, k) == [x \in (DOMAIN m) \ {k} |-> m[x]]
\* obj.f = v on a JavaScript object
SetField(r, f, v) == [x \in (DOMAIN r) \cup {f} |-> IF x = f THEN v ELSE r[x]]
Has(r, f) == f \in DOMAIN r

Init ==
    /\ researchResults = <<>>
    /\ researchAgents = {}
    /\ pc = [j \in Jobs |-> "idle"]
    /\ refineWithThinking = [j \in Jobs |-> FALSE]
    /\ elapsed = [j \in Jobs |-> 0]
    /\ progressPercent = [j \in Jobs |-> 0]
    /\ pollResult = [j \in Jobs |-> NoResult]
    /\ events = [j \in Jobs |-> <<>>]
    /\ result = [j \in Jobs |-> NoResult]
    /\ calls = [j \in Jobs |-> NoCalls]
    /\ returns = [j \in Jobs |-> <<>>]
    /\ cancelPc = [j \in Jobs |-> "none"]
    /\ deleted = {}
    /\ submitResponse = [j \in Jobs |-> NoResponse]
    /\ apiKey \in ApiKeys
    /\ rejection = NoResponse
    /\ client = ClientIdle
    /\ cancelResponse = [j \in Jobs |-> NoResponse]
    /\ cancelRejection = [j \in Jobs |-> NoResponse]
    /\ poller = PollerIdle

\* --------------------------------------------------------- text helpers
RECURSIVE Join(_, _)
\* Array.prototype.join: the texts of xs with sep between consecutive ones
Join(xs, sep) ==
    IF Len(xs) = 0 THEN <<>>
    ELSE IF Len(xs) = 1 THEN <<xs[1]>>
    ELSE <<xs[1], sep>> \o Join(Tail(xs), sep)

\* a plausible bug: only the first output is read
ExtractContentFirst(outputs) ==
    IF outputs = <<>> \/ outputs[1] = "" THEN <<NoContentMsg>> ELSE <<outputs[1]>>

\* outputs.filter(o => o.text).map(o => o.text).join('\n\n') || '<default>'
ExtractContent(outputs) ==
    LET texts == SelectSeq(outputs, LAMBDA o : o # "")
    IN IF texts = <<>> THEN <<NoContentMsg>> ELSE Join(texts, BlankLine)

\* a plausible bug: the thinking parts are not filtered out
AnswerPartsAll(parts) == parts

\* parts.filter(p => !p.thought)
AnswerParts(parts) == SelectSeq(parts, LAMBDA p : ~p.thought)

\* answerParts.map(p => p.text).join('\n')
RefinedContent(parts) ==
    LET answerParts == AnswerParts(parts)
    IN Join([i \in 1..Len(answerParts) |-> answerParts[i].text], NewLine)

\* --------------------------------------------------------------- events
StartEvent == [type |-> "start"]
ProgressEvent(p) == [type |-> "progress", progress |-> p]
ContentEvent(c) == [type |-> "content", content |-> c]
CompleteEvent == [type |-> "complete"]
ErrorEvent(msg) == [type |-> "error", error |-> msg]

\* The id research() gives its result: generated inside the agent,
\* independently of the id under which the route registered the job.
AgentResultId(j) == <<"agent", j>>

\* a plausible bug: the callback writes the progress to every entry
OnEventShared(st, j, e) ==
    IF Has(e, "progress")
    THEN [results |-> [k \in DOMAIN st.results |->
                          SetField(st.results[k], "progress", e.progress)],
          agents |-> st.agents]
    ELSE st

\* The onEvent callback the route hands to agent.research: st is the pair of
\* Maps, the value is the pair after the callback ran for event e of job j.
OnEvent(st, j, e) ==
    IF j \notin DOMAIN st.results THEN st
    ELSE
      LET current == st.results[j] IN
      IF e.type = "error" THEN
        LET c1 == SetField(current, "status", "failed")
            c2 == SetField(c1, "error",
                           IF e.error # "" THEN e.error ELSE UnknownEventErrorMsg)
        IN [results |-> MapSet(st.results, j, c2), agents |-> st.agents \ {j}]
      ELSE
        LET c1 == IF Has(e, "progress") /\ e.progress # 0
                  THEN SetField(current, "progress", e.progress) ELSE current
            c2 == IF Has(e, "interactionId")
                  THEN SetField(c1, "interactionId", e.interactionId) ELSE c1
        IN [results |-> MapSet(st.results, j, c2), agents |-> st.agents]

RECURSIVE EmitAll(_, _, _)
\* emitEvent called for each event of es in order
EmitAll(st, j, es) ==
    IF es = <<>> THEN st ELSE EmitAll(OnEvent(st, j, Head(es)), j, Tail(es))

\* a plausible bug: the finished task drops its entry with its agent
StoreResultDrops(st, j, res) ==
    [results |-> MapDelete(st.results, j), agents |-> st.agents \ {j}]

\* researchResults.set(resultId, result); await agent.closeSession();
\* researchAgents.delete(resultId)
StoreResult(st, j, res) ==
    [results |-> MapSet(st.results, j, res), agents |-> st.agents \ {j}]

\* a plausible bug: the error of pollForCompletion's value is not copied
BuildResultNoError(j, pr, finalContent) ==
    [id |-> AgentResultId(j),
     status |-> IF pr.status = "completed" THEN "completed" ELSE "failed",
     progress |-> 100,
     content |-> IF pr.status = "completed"
                 THEN finalContent \o <<MetadataFooter>>
                 ELSE finalContent]

\* The object research() returns on its normal path, from what
\* pollForCompletion returned (pr) and the final content.
BuildResult(j, pr, finalContent) ==
    LET base == [id |-> AgentResultId(j),
                 status |-> IF pr.status = "completed" THEN "completed" ELSE "failed",
                 progress |-> 100,
                 content |-> IF pr.status = "completed"
                             THEN finalContent \o <<MetadataFooter>>
                             ELSE finalContent]
    IN IF Has(pr, "error") THEN SetField(base, "error", pr.error) ELSE base

\* The object research() returns from its catch block.
CatchResult(j, errorMessage) ==
    [id |-> AgentResultId(j), status |-> "failed", error |-> errorMessage]

\* ------------------------------------------------------------ the agent
Min(a, b) == IF a < b THEN a ELSE b

\* pollForCompletion's return value once the deadline has passed
TimedOutResult == [status |-> "failed", content |-> <<>>, error |-> TimedOutMsg]

\* a plausible bug: the progress is not capped
NextProgressUncapped(pp) == pp + 10

\* a plausible bug: the progress wraps instead of being capped
NextProgressWrap(pp) == (pp + 10) % 100

\* a plausible bug: the progress starts over once it would pass the cap
NextProgressRestart(pp) == IF pp + 10 > 90 THEN 10 ELSE pp + 10

\* progressPercent = Math.min(progressPercent + 10, 90)
NextProgress(pp) == Min(pp + 10, 90)

\* One iteration of pollForCompletion after axios.get answered with o (a 2xx
\* response), progressPercent being pp: the events emitted, the new
\* progressPercent and how the iteration ends (next iteration or return).
HandlePollResponse(o, pp) ==
      LET newPp == NextProgress(pp)
          progress == <<ProgressEvent(newPp)>>
      IN CASE o.kind = "completed" ->
                LET content == ExtractContent(o.outputs)
                IN [emitted |-> progress \o <<ContentEvent(content), CompleteEvent>>,
                    progressPercent |-> newPp,
                    cont |-> [kind |-> "returned",
                              value |-> [status |-> "completed", content |-> content]]]
           [] o.kind = "failed" ->
                [emitted |-> progress, progressPercent |-> newPp,
                 cont |-> [kind |-> "returned",
                           value |-> [status |-> "failed", content |-> <<>>,
                                      error |-> IF o.message # "" THEN o.message
                                                ELSE ResearchFailedMsg]]]
           [] OTHER ->
                [emitted |-> progress, progressPercent |-> newPp,
                 cont |-> [kind |-> "loop"]]

\* a plausible bug: a failed poll is swallowed and the loop goes on
HandlePollRetry(o, pp) ==
    IF o.kind = "throw"
    THEN [emitted |-> <<>>, progressPercent |-> pp, cont |-> [kind |-> "loop"]]
    ELSE HandlePollResponse(o, pp)

\* One iteration of pollForCompletion after axios.get came back with o: axios
\* throws on a transport error and on a non-2xx status, and nothing in
\* pollForCompletion catches it.
HandlePoll(o, pp) ==
    IF o.kind = "throw"
    THEN [emitted |-> <<>>, progressPercent |-> pp,
          cont |-> [kind |-> "threw", message |-> o.message]]
    ELSE HandlePollResponse(o, pp)

\* a plausible bug: a failed create call is not noticed and polling starts
HandleCreateFallThrough(j, o, carriesId) ==
    [emitted |-> <<ProgressEvent(10)>>, progressPercent |-> 10, cont |-> [kind |-> "loop"]]

\* research() after axios.post (create interaction) came back with o; the
\* progress event may carry the interaction id (carriesId).
HandleCreate(j, o, carriesId) ==
    IF o.kind = "throw"
    THEN [emitted |-> <<>>, progressPercent |-> 0,
          cont |-> [kind |-> "threw", message |-> o.message]]
    ELSE [emitted |-> <<IF carriesId /\ o.hasId
                        THEN SetField(ProgressEvent(10), "interactionId", <<"interactions", j>>)
                        ELSE ProgressEvent(10)>>,
          progressPercent |-> 10,
          cont |-> [kind |-> "loop"]]

\* a plausible bug: the fallback of refineWithThinking returns nothing
RefineReturnValueClears(content, o) ==
    IF o.kind = "ok" /\ Len(AnswerParts(o.parts)) > 0
    THEN [emitted |-> <<ContentEvent(RefinedContent(o.parts))>>,
          cont |-> [kind |-> "returned", value |-> RefinedContent(o.parts)]]
    ELSE [emitted |-> <<>>, cont |-> [kind |-> "returned", value |-> <<>>]]

\* a plausible bug: refineWithThinking without its try/catch
RefineReturnValueNoCatch(content, o) ==
    IF o.kind = "ok" /\ Len(AnswerParts(o.parts)) > 0
    THEN [emitted |-> <<ContentEvent(RefinedContent(o.parts))>>,
          cont |-> [kind |-> "returned", value |-> RefinedContent(o.parts)]]
    ELSE IF o.kind = "throw"
    THEN [emitted |-> <<>>, cont |-> [kind |-> "threw", message |-> "Network Error"]]
    ELSE [emitted |-> <<>>, cont |-> [kind |-> "returned", value |-> content]]

\* refineWithThinking after generateContent came back with o: the event it
\* emits after the call and how it ends.  Its try/catch swallows an exception
\* of the call, so it always returns a content.
RefineReturnValue(content, o) ==
    IF o.kind = "ok" /\ Len(AnswerParts(o.parts)) > 0
    THEN [emitted |-> <<ContentEvent(RefinedContent(o.parts))>>,
          cont |-> [kind |-> "returned", value |-> RefinedContent(o.parts)]]
    ELSE [emitted |-> <<>>, cont |-> [kind |-> "returned", value |-> content]]

\* a plausible bug: the loop condition never looks at the deadline
LoopTopNoDeadline(cont, el) == cont

\* The while condition of pollForCompletion: a "loop" continuation becomes the
\* timed-out return when the deadline has passed.
LoopTop(cont, el) ==
    IF cont.kind = "loop" /\ ~(el < MAX_RESEARCH_TIME)
    THEN [kind |-> "returned", value |-> TimedOutResult]
    ELSE cont

\* a plausible bug: the status of the research is not looked at
GoesToRefineAnyStatus(j, pr) == refineWithThinking[j]

\* research() from the point where pollForCompletion returned pr:
\* TRUE iff it goes on to refineWithThinking
GoesToRefine(j, pr) == pr.status = "completed" /\ refineWithThinking[j]

\* The background task of job j runs on from a resumption: es are the events
\* emitted so far in this step, ret what the remote call came back with, pp
\* and el the values of progressPercent and of the elapsed time, cont how the
\* code before ended.  It runs to the next await (sleep or generateContent) or
\* to the end of the route's task.
Resume(j, ret, es, pp, el, cont0) ==
    LET cont == LoopTop(cont0, el)
        st0 == [results |-> researchResults, agents |-> researchAgents]
    IN
    /\ progressPercent' = [progressPercent EXCEPT ![j] = pp]
    /\ elapsed' = [elapsed EXCEPT ![j] = el]
    /\ UNCHANGED <<refineWithThinking, cancelPc, deleted, submitResponse, apiKey, rejection,
                   client, cancelResponse, cancelRejection, poller>>
    /\ returns' = [returns EXCEPT ![j] = Append(@, ret)]
    /\ CASE cont.kind = "loop" ->
              LET st1 == EmitAll(st0, j, es) IN
              /\ pc' = [pc EXCEPT ![j] = "sleeping"]
              /\ events' = [events EXCEPT ![j] = @ \o es]
              /\ researchResults' = st1.results
              /\ researchAgents' = st1.agents
              /\ UNCHANGED <<pollResult, result, calls>>
         [] cont.kind = "returned" /\ GoesToRefine(j, cont.value) ->
              LET es1 == es \o <<ProgressEvent(95)>>
                  st1 == EmitAll(st0, j, es1) IN
              /\ pc' = [pc EXCEPT ![j] = "refining"]
              /\ events' = [events EXCEPT ![j] = @ \o es1]
              /\ pollResult' = [pollResult EXCEPT ![j] = cont.value]
              /\ calls' = [calls EXCEPT ![j].refine = @ + 1]
              /\ researchResults' = st1.results
              /\ researchAgents' = st1.agents
              /\ UNCHANGED result
         [] cont.kind = "returned" /\ ~GoesToRefine(j, cont.value) ->
              LET res == BuildResult(j, cont.value, cont.value.content)
                  st1 == StoreResult(EmitAll(st0, j, es), j, res) IN
              /\ pc' = [pc EXCEPT ![j] = "done"]
              /\ events' = [events EXCEPT ![j] = @ \o es]
              /\ pollResult' = [pollResult EXCEPT ![j] = cont.value]
              /\ result' = [result EXCEPT ![j] = res]
              /\ researchResults' = st1.results
              /\ researchAgents' = st1.agents
              /\ UNCHANGED calls
         [] cont.kind = "threw" ->
              LET es1 == es \o <<ErrorEvent(cont.message)>>
                  res == CatchResult(j, cont.message)
                  st1 == StoreResult(EmitAll(st0, j, es1), j, res) IN
              /\ pc' = [pc EXCEPT ![j] = "done"]
              /\ events' = [events EXCEPT ![j] = @ \o es1]
              /\ result' = [result EXCEPT ![j] = res]
              /\ researchResults' = st1.results
              /\ researchAgents' = st1.agents
              /\ UNCHANGED <<pollResult, calls>>

\* Whether the progress event emitted once the interaction is created
\* carries the interaction id (the route's callback reads
\* event.data.interactionId).
InteractionIdInEvent == BOOLEAN

\* --------------------------------------------------------- credential
\* a plausible bug: the test for a missing key never fires
MissingNever(key) == FALSE

\* !key on a string that may be undefined or empty
Missing(key) == key = ""

\* new GeminiClient(config)
NewGeminiClient(config) ==
    IF Missing(config.apiKey)
    THEN [kind |-> "threw", message |-> "API key is required"]
    ELSE [kind |-> "ok", apiKey |-> config.apiKey]

\* new DeepResearchAgent(config): the constructor builds its client
NewDeepResearchAgent(config) ==
    LET geminiClient == NewGeminiClient(config)
    IN IF geminiClient.kind = "threw" THEN geminiClient
       ELSE [kind |-> "ok", client |-> geminiClient]

\* createDeepResearchAgent(apiKey), env being process.env.GEMINI_API_KEY
CreateDeepResearchAgent(arg, env) ==
    LET key == IF arg # "" THEN arg ELSE env
    IN IF Missing(key)
       THEN [kind |-> "threw", message |-> "GEMINI_API_KEY is required"]
       ELSE NewDeepResearchAgent([apiKey |-> key])

\* POST /research up to the point where the agent exists: the NO_API_KEY
\* answer, the outer catch's answer when the factory throws, or the agent
SubmitCheck(env) ==
    IF Missing(env)
    THEN [kind |-> "rejected",
          response |-> [answered |-> TRUE, code |-> 500, success |-> FALSE,
                        error |-> "NO_API_KEY"]]
    ELSE LET agent == CreateDeepResearchAgent(env, env)
         IN IF agent.kind = "threw"
            THEN [kind |-> "rejected",
                  response |-> [answered |-> TRUE, code |-> 500, success |-> FALSE,
                                error |-> "RESEARCH_ERROR"]]
            ELSE [kind |-> "ok", agent |-> agent]

\* ----------------------------------------------------- POST /research
\* The handler's synchronous part works on st: the two Maps, the events the
\* agent emitted, the create calls issued and the answer sent to the caller.

\* researchResults.set(resultId, {...}); researchAgents.set(resultId, agent)
Register(st, j) ==
    [st EXCEPT !.results = MapSet(st.results, j,
                                  [id |-> j, status |-> "processing", progress |-> 0]),
               !.agents = st.agents \cup {j}]

\* res.json({success: true, data: {id, status: 'processing', ...}}), recorded
\* with the number of create calls issued and the registry entry at that moment
Answer(st, j) ==
    [st EXCEPT !.response = [answered |-> TRUE,
                             data |-> [id |-> j, status |-> "processing"],
                             created |-> st.created,
                             entry |-> st.results[j]]]

\* agent.research(...) up to its first await: start, progress 5, axios.post
StartResearch(st, j) ==
    LET es == <<StartEvent, ProgressEvent(5)>>
        st1 == EmitAll([results |-> st.results, agents |-> st.agents], j, es)
    IN [st EXCEPT !.results = st1.results,
                  !.agents = st1.agents,
                  !.emitted = st.emitted \o es,
                  !.created = st.created + 1]

\* a plausible bug: the caller is answered once the create call is under way
SubmitEffectAnswersLast(st, j) == Answer(StartResearch(Register(st, j), j), j)

\* The synchronous part of POST /research, in the order of the code
SubmitEffect(st, j) == StartResearch(Answer(Register(st, j), j), j)

\* ----------------------------------------------------------- the actions
\* POST /research with a valid query: the entry and the agent are stored, the
\* caller is answered, and agent.research runs to its first await (axios.post).
Submit(j, refine) ==
    /\ pc[j] = "idle"
    /\ SubmitCheck(apiKey).kind = "ok"
    /\ LET st == SubmitEffect([results |-> researchResults, agents |-> researchAgents,
                               emitted |-> <<>>, created |-> calls[j].create,
                               response |-> submitResponse[j]], j)
       IN /\ researchResults' = st.results
          /\ researchAgents' = st.agents
          /\ events' = [events EXCEPT ![j] = st.emitted]
          /\ calls' = [calls EXCEPT ![j].create = st.created]
          /\ submitResponse' = [submitResponse EXCEPT ![j] = st.response]
    /\ pc' = [pc EXCEPT ![j] = "creating"]
    /\ refineWithThinking' = [refineWithThinking EXCEPT ![j] = refine]
    /\ UNCHANGED <<elapsed, progressPercent, pollResult, result, returns, cancelPc, deleted,
                   apiKey, rejection, client, cancelResponse, cancelRejection, poller>>

\* POST /research when the request is turned down before anything is stored
SubmitRejected ==
    /\ SubmitCheck(apiKey).kind = "rejected"
    /\ rejection' = SubmitCheck(apiKey).response
    /\ UNCHANGED <<researchResults, researchAgents, pc, refineWithThinking, elapsed,
                   progressPercent, pollResult, events, result, calls, returns, cancelPc,
                   deleted, submitResponse, apiKey, client, cancelResponse,
                   cancelRejection, poller>>

\* axios.post (create interaction) comes back
CreateReturn(j, o, carriesId) ==
    /\ pc[j] = "creating"
    /\ LET h == HandleCreate(j, o, carriesId)
       IN Resume(j, [call |-> "create", outcome |-> o], h.emitted, h.progressPercent,
                 elapsed[j], h.cont)

\* sleep(POLL_INTERVAL) is over after d ms and axios.get is issued.  At most
\* bound polls are made: the last one allowed follows a sleep that overran
\* the deadline.
SleepReturn(j, d, bound) ==
    /\ pc[j] = "sleeping"
    /\ calls[j].poll < bound
    /\ d = POLL_INTERVAL => calls[j].poll + 1 < bound
    /\ elapsed' = [elapsed EXCEPT ![j] = @ + d]
    /\ calls' = [calls EXCEPT ![j].poll = @ + 1]
    /\ pc' = [pc EXCEPT ![j] = "polling"]
    /\ UNCHANGED <<researchResults, researchAgents, refineWithThinking, progressPercent,
                   pollResult, events, result, returns, cancelPc, deleted, submitResponse,
                   apiKey, rejection, client, cancelResponse, cancelRejection, poller>>

\* axios.get (status poll) comes back
PollReturn(j, o) ==
    /\ pc[j] = "polling"
    /\ LET h == HandlePoll(o, progressPercent[j])
       IN Resume(j, [call |-> "poll", outcome |-> o], h.emitted, h.progressPercent,
                 elapsed[j], h.cont)

\* client.generateContent comes back; research() appends the footer, returns,
\* and the route stores the result.
RefineReturn(j, o) ==
    /\ pc[j] = "refining"
    /\ LET r == RefineReturnValue(pollResult[j].content, o)
           threw == r.cont.kind = "threw"
           es == IF threw THEN r.emitted \o <<ErrorEvent(r.cont.message)>> ELSE r.emitted
           res == IF threw THEN CatchResult(j, r.cont.message)
                  ELSE BuildResult(j, pollResult[j], r.cont.value)
           st0 == [results |-> researchResults, agents |-> researchAgents]
           st1 == StoreResult(EmitAll(st0, j, es), j, res)
       IN /\ events' = [events EXCEPT ![j] = @ \o es]
          /\ result' = [result EXCEPT ![j] = res]
          /\ researchResults' = st1.results
          /\ researchAgents' = st1.agents
    /\ pc' = [pc EXCEPT ![j] = "done"]
    /\ returns' = [returns EXCEPT ![j] = Append(@, [call |-> "refine", outcome |-> o])]
    /\ UNCHANGED <<refineWithThinking, elapsed, progressPercent, pollResult, calls,
                   cancelPc, deleted, submitResponse, apiKey, rejection, client,
                   cancelResponse, cancelRejection, poller>>

\* The answer of the cancel route once the entry is marked cancelled, remote
\* being what agent.cancelInteraction came back with ("none": it was not
\* called): res.json({success: true, ...}) whatever happened before.
CancelAnswer(remote) ==
    [answered |-> TRUE, code |-> 200, success |-> TRUE, remote |-> remote]

\* The answer of the cancel route when it turns the request down
CancelError(status, code) ==
    [answered |-> TRUE, code |-> status, success |-> FALSE, error |-> code]

\* a plausible bug: an id that is not in the registry is answered as not
\* processing
CancelCheckNoNotFound(env, results, id) ==
    IF Missing(env) THEN [kind |-> "rejected", response |-> CancelError(500, "NO_API_KEY")]
    ELSE IF id \notin DOMAIN results \/ results[id].status # "processing"
    THEN [kind |-> "rejected", response |-> CancelError(400, "NOT_PROCESSING")]
    ELSE [kind |-> "ok"]

\* POST /research/:id/cancel up to the point where the entry is marked: the
\* three early returns of the handler, in the order of the code
CancelCheck(env, results, id) ==
    IF Missing(env) THEN [kind |-> "rejected", response |-> CancelError(500, "NO_API_KEY")]
    ELSE IF id \notin DOMAIN results
    THEN [kind |-> "rejected", response |-> CancelError(404, "NOT_FOUND")]
    ELSE IF results[id].status # "processing"
    THEN [kind |-> "rejected", response |-> CancelError(400, "NOT_PROCESSING")]
    ELSE [kind |-> "ok"]

\* POST /research/:id/cancel when the request is turned down: the handler
\* answers and returns, nothing is written and no call is made.  CancelRequest
\* is the same handler when the request is accepted.
CancelRejected(j) ==
    /\ CancelCheck(apiKey, researchResults, j).kind = "rejected"
    /\ cancelRejection' =
           [cancelRejection EXCEPT ![j] = CancelCheck(apiKey, researchResults, j).response]
    /\ UNCHANGED <<researchResults, researchAgents, pc, refineWithThinking, elapsed,
                   progressPercent, pollResult, events, result, calls, returns, cancelPc,
                   deleted, submitResponse, apiKey, rejection, client, cancelResponse,
                   poller>>

\* POST /research/:id/cancel for an entry that is processing, up to the first
\* await of the handler.
CancelRequest(j) ==
    /\ CancelCheck(apiKey, researchResults, j).kind = "ok"
    /\ LET research == SetField(researchResults[j], "status", "cancelled")
       IN /\ researchResults' = MapSet(researchResults, j, research)
          /\ IF Has(research, "interactionId") /\ j \in researchAgents
             THEN /\ cancelPc' = [cancelPc EXCEPT ![j] = "remote"]
                  /\ calls' = [calls EXCEPT ![j].cancel = @ + 1]
                  /\ UNCHANGED <<researchAgents, cancelResponse>>
             ELSE /\ cancelPc' = [cancelPc EXCEPT ![j] = "done"]
                  /\ researchAgents' = researchAgents \ {j}
                  /\ cancelResponse' = [cancelResponse EXCEPT ![j] = CancelAnswer("none")]
                  /\ UNCHANGED calls
    /\ UNCHANGED <<pc, refineWithThinking, elapsed, progressPercent, pollResult, events,
                   result, returns, deleted, submitResponse, apiKey, rejection, client,
                   cancelRejection, poller>>

\* agent.cancelInteraction comes back (true, false or an exception); the
\* handler removes the agent and answers.
CancelRemoteReturn(j, o) ==
    /\ cancelPc[j] = "remote"
    /\ o \in CancelOutcomes
    /\ cancelPc' = [cancelPc EXCEPT ![j] = "done"]
    /\ researchAgents' = researchAgents \ {j}
    /\ cancelResponse' = [cancelResponse EXCEPT ![j] = CancelAnswer(o)]
    /\ UNCHANGED <<researchResults, pc, refineWithThinking, elapsed, progressPercent,
                   pollResult, events, result, calls, returns, deleted, submitResponse,
                   apiKey, rejection, client, cancelRejection, poller>>

\* a plausible bug: deleting an id that is not there is answered as an error
DeleteEffectNotFound(st, j) ==
    IF j \in DOMAIN st.results
    THEN [results |-> MapDelete(st.results, j), agents |-> st.agents \ {j},
          response |-> [success |-> TRUE, message |-> "Result deleted"]]
    ELSE [results |-> st.results, agents |-> st.agents \ {j},
          response |-> [success |-> FALSE, message |-> "Research result not found"]]

\* The body of DELETE /research/:id on the pair of Maps st: the Maps after it
\* and the answer to the caller.
DeleteEffect(st, j) ==
    IF j \in DOMAIN st.results
    THEN [results |-> MapDelete(st.results, j), agents |-> st.agents \ {j},
          response |-> [success |-> TRUE, message |-> "Result deleted"]]
    ELSE [results |-> st.results, agents |-> st.agents \ {j},
          response |-> [success |-> TRUE,
                        message |-> "Result not found or already deleted"]]

\* DELETE /research/:id
Delete(j) ==
    /\ LET r == DeleteEffect([results |-> researchResults, agents |-> researchAgents], j)
       IN /\ researchResults' = r.results
          /\ researchAgents' = r.agents
    /\ deleted' = IF j \in DOMAIN researchResults THEN deleted \cup {j} ELSE deleted
    /\ UNCHANGED <<pc, refineWithThinking, elapsed, progressPercent, pollResult, events,
                   result, calls, returns, cancelPc, submitResponse, apiKey, rejection,
                   client, cancelResponse, cancelRejection, poller>>

\* a plausible bug: a failed job is answered like an unknown id
GetStatusHidesFailed(id) ==
    IF id \in DOMAIN researchResults /\ researchResults[id].status # "failed"
    THEN [code |-> 200, data |-> researchResults[id]]
    ELSE [code |-> 404]

\* GET /research/:id
GetStatus(id) ==
    IF id \in DOMAIN researchResults
    THEN [code |-> 200, data |-> researchResults[id]]
    ELSE [code |-> 404]

Stall == MAX_RESEARCH_TIME
SleepTimes == {POLL_INTERVAL, Stall}

\* The outcomes of the remote calls drawn when two jobs share the registry:
\* one of each kind the routes can tell apart.
SharedCreateOutcomes ==
    {o \in CreateOutcomes :
        /\ o.kind = "throw" => o.message = "Network Error"
        /\ o.kind = "ok" => o.hasId}
\* the cancel route goes on in the same way whatever cancelInteraction does
SharedCancelOutcomes == {"failure"}
SharedPollOutcomes ==
    {o \in PollOutcomes :
        /\ o.kind = "throw" => o.message = "Network Error"
        /\ o.kind = "failed" => o.message = ""
        /\ o.kind = "completed" => o.outputs \in {<<>>, <<"A">>}}
SharedRefineOutcomes ==
    {o \in RefineOutcomes :
        /\ o.kind # "noparts"
        /\ o.kind = "ok" => o.parts \in {<<ThoughtPart>>, <<ThoughtPart, AnswerPart1>>}}

\* The routes with the jobs sharing the registry
Next ==
    \/ SubmitRejected
    \/ \E j \in Jobs :
        \/ \E refine \in BOOLEAN : Submit(j, refine)
        \/ \E o \in SharedCreateOutcomes, c \in InteractionIdInEvent : CreateReturn(j, o, c)
        \/ \E d \in SleepTimes : SleepReturn(j, d, MaxPollsShared)
        \/ \E o \in SharedPollOutcomes : PollReturn(j, o)
        \/ \E o \in SharedRefineOutcomes : RefineReturn(j, o)
        \/ CancelRequest(j)
        \/ \E o \in SharedCancelOutcomes : CancelRemoteReturn(j, o)
        \/ Delete(j)

Spec == Init /\ [][Next]_vars

\* One run of agent.research, started by the route, with no cancel or delete
AgentJob == "research_1"
NextAgent ==
    \/ SubmitRejected
    \/ \E refine \in BOOLEAN : Submit(AgentJob, refine)
    \/ \E o \in CreateOutcomes, c \in InteractionIdInEvent : CreateReturn(AgentJob, o, c)
    \/ \E d \in SleepTimes : SleepReturn(AgentJob, d, MaxPolls)
    \/ \E o \in PollOutcomes : PollReturn(AgentJob, o)
    \/ \E o \in RefineOutcomes : RefineReturn(AgentJob, o)

SpecAgent == Init /\ [][NextAgent]_vars

\* One job with its cancel route, every outcome of the remote calls drawn
NextCancel ==
    \/ NextAgent
    \/ CancelRequest(AgentJob)
    \/ \E o \in CancelOutcomes : CancelRemoteReturn(AgentJob, o)
    \/ \E j \in Jobs : CancelRejected(j)

SpecCancel == Init /\ [][NextCancel]_vars

\* ------------------------------------------------- GET /research (list)
\* most jobs the list specification registers, and its latest clock reading
MaxListed == 21
MaxTime == 3
\* .slice(0, 20)
ListLimit == 20

\* Array.from(researchResults.values()): a Map iterates in insertion order,
\* and the list specification issues the ids 1, 2, ... in that order
ListValues(results) == [i \in 1..Cardinality(DOMAIN results) |-> results[i]]

\* Array.prototype.sort with (a, b) => b.createdAt - a.createdAt, which is
\* stable: x goes behind every element that is not older than it
RECURSIVE InsertByCreatedAt(_, _)
InsertByCreatedAt(sorted, x) ==
    IF sorted = <<>> THEN <<x>>
    ELSE IF Head(sorted).createdAt >= x.createdAt
         THEN <<Head(sorted)>> \o InsertByCreatedAt(Tail(sorted), x)
         ELSE <<x>> \o sorted

RECURSIVE SortByCreatedAtDesc(_)
SortByCreatedAtDesc(s) ==
    IF s = <<>> THEN <<>>
    ELSE InsertByCreatedAt(SortByCreatedAtDesc(SubSeq(s, 1, Len(s) - 1)), s[Len(s)])

\* s.slice(0, n)
Slice(s, n) == SubSeq(s, 1, Min(Len(s), n))

\* a plausible bug: the limit is applied before the sort
ListResultsSliceFirst(results) ==
    SortByCreatedAtDesc(Slice(ListValues(results), ListLimit))

\* The results GET /research answers with
ListResults(results) ==
    Slice(SortByCreatedAtDesc(ListValues(results)), ListLimit)

\* the latest createdAt in the registry (0 when it is empty)
LatestCreatedAt(results) ==
    IF DOMAIN results = {} THEN 0
    ELSE CHOOSE t \in {results[i].createdAt : i \in DOMAIN results} :
            \A i \in DOMAIN results : results[i].createdAt <= t

\* POST /research as the list sees it: the next id is registered with
\* createdAt: new Date(), the clock reading t, which never runs backwards.
\* (The object the task stores later carries createdAt: new Date(startTime),
\* read in the same synchronous block, so storing keeps the order.)
ListSubmit(t) ==
    /\ SubmitCheck(apiKey).kind = "ok"
    /\ Cardinality(DOMAIN researchResults) < MaxListed
    /\ t >= LatestCreatedAt(researchResults)
    /\ LET id == Cardinality(DOMAIN researchResults) + 1
       IN researchResults' = MapSet(researchResults, id,
                                    [id |-> id, status |-> "processing", progress |-> 0,
                                     createdAt |-> t])
    /\ UNCHANGED <<researchAgents, pc, refineWithThinking, elapsed, progressPercent,
                   pollResult, events, result, calls, returns, cancelPc, deleted,
                   submitResponse, apiKey, rejection, client, cancelResponse,
                   cancelRejection, poller>>

NextList ==
    \/ SubmitRejected
    \/ \E t \in 1..MaxTime : ListSubmit(t)

SpecList == Init /\ [][NextList]_vars

\* ------------------------------------------- the transport client (lib)
MaxClientPolls == 3   \* status requests of one waitForCompletion call

\* const DEFAULT_TIMEOUT, const POLL_INTERVAL of client.ts
DEFAULT_TIMEOUT == 300000
CLIENT_POLL_INTERVAL == 2000

\* what fetch comes back with: a response (any status), the AbortError the
\* timer causes, or another rejection
HttpStatuses == {200, 404, 500}
FetchOutcomes ==
    [kind : {"response"}, status : HttpStatuses]
    \cup [kind : {"abort"}] \cup [kind : {"reject"}, message : {"fetch failed"}]

\* what response.json() comes back with: a rejection (the body is not
\* JSON), the value null, or an object
Bodies ==
    [kind : {"invalid", "null"}]
    \cup [kind : {"object"},
          value : {<<>>, [error |-> [message |-> "quota exceeded"]],
                   [state |-> "PROCESSING"], [state |-> "COMPLETE"], [state |-> "FAILED"]}]

\* the value null as parsed data
JsNull == [null |-> TRUE]
IsNull(v) == Has(v, "null")

\* no body was read
NoBody == [kind |-> "none"]

\* response.ok
Ok(status) == status >= 200 /\ status <= 299
\* response.statusText
StatusText(status) ==
    CASE status = 404 -> "Not Found" [] status = 500 -> "Internal Server Error" [] OTHER -> "OK"
\* an error code is a sequence of the pieces of its text: `HTTP_${response.status}`
HttpCode(status) == <<"HTTP_", status>>

Failure(code, message) == [success |-> FALSE, error |-> [code |-> code, message |-> message]]

\* request() after fetch came back with o, when no body is read: the catch
\* block tells the AbortError from the rest
AfterFetch(o) ==
    IF o.kind = "abort" THEN Failure(<<"TIMEOUT">>, "Request timed out")
    ELSE Failure(<<"NETWORK_ERROR">>, o.message)

\* request() after response.json() came back with b for a response of the
\* given status.  For a non-2xx response a body that is not JSON is replaced
\* by {}, and errorData.error of the value null raises a TypeError, which the
\* catch block turns into NETWORK_ERROR.
AfterJson(status, b) ==
    IF ~Ok(status)
    THEN IF b.kind = "null"
         THEN Failure(<<"NETWORK_ERROR">>, "Cannot read properties of null (reading 'error')")
         ELSE LET errorData == IF b.kind = "invalid" THEN <<>> ELSE b.value
              IN Failure(HttpCode(status),
                         IF Has(errorData, "error") THEN errorData.error.message
                         ELSE StatusText(status))
    ELSE IF b.kind = "invalid"
         THEN Failure(<<"NETWORK_ERROR">>, "Unexpected end of JSON input")
         ELSE [success |-> TRUE, data |-> IF b.kind = "null" THEN JsNull ELSE b.value]

\* waitForCompletion's value when the loop condition fails
WaitTimedOut == Failure(<<"TIMEOUT">>, "Interaction did not complete in time")

\* waitForCompletion from the point where getInteraction returned r, on the
\* client record c: a failure is returned as it is, onProgress is called with
\* the data, response.state of the value null raises, a terminal state
\* returns, anything else sleeps.
AfterRequest(c, r) ==
    LET c1 == [c EXCEPT !.outcomes = Append(@, r), !.response = NoResult] IN
    IF ~r.success THEN [c1 EXCEPT !.pc = "returned", !.value = r]
    ELSE LET c2 == [c1 EXCEPT !.onProgress = @ + 1] IN
         IF IsNull(r.data) THEN [c2 EXCEPT !.pc = "threw"]
         ELSE IF Has(r.data, "state") /\ r.data.state \in {"COMPLETE", "FAILED"}
         THEN [c2 EXCEPT !.pc = "returned", !.value = r]
         ELSE [c2 EXCEPT !.pc = "sleeping"]

\* the while condition of waitForCompletion and, when it holds, the call of
\* getInteraction up to fetch
LoopOrTimeout(c) ==
    IF c.elapsed < c.maxWaitTime
    THEN [c EXCEPT !.pc = "fetching", !.requests = @ + 1, !.fetches = @ + 1]
    ELSE [c EXCEPT !.pc = "returned", !.value = WaitTimedOut]

ShortWait == 2 * CLIENT_POLL_INTERVAL
MaxWaitTimes == {ShortWait, DEFAULT_TIMEOUT}
FetchTimes == {0, DEFAULT_TIMEOUT}
ClientSleepTimes == {CLIENT_POLL_INTERVAL, DEFAULT_TIMEOUT}

\* waitForCompletion(interactionName, onProgress, m) is called
WaitStart(m) ==
    /\ client.pc = "idle"
    /\ NewGeminiClient([apiKey |-> apiKey]).kind = "ok"
    /\ client' = LoopOrTimeout([client EXCEPT !.maxWaitTime = m])
    /\ UNCHANGED <<researchResults, researchAgents, pc, refineWithThinking, elapsed,
                   progressPercent, pollResult, events, result, calls, returns, cancelPc,
                   deleted, submitResponse, apiKey, rejection, cancelResponse,
                   cancelRejection, poller>>

\* fetch comes back after d ms: the timer (this.timeout) aborts it exactly
\* when it is still pending then
FetchReturn(o, d) ==
    /\ client.pc = "fetching"
    /\ o.kind = "abort" <=> d = DEFAULT_TIMEOUT
    /\ LET c == [client EXCEPT !.elapsed = @ + d,
                                !.fetched = Append(@, [fetch |-> o, body |-> NoBody])]
       IN client' = IF o.kind = "response"
                    THEN [c EXCEPT !.pc = "reading", !.response = o]
                    ELSE AfterRequest(c, AfterFetch(o))
    /\ UNCHANGED <<researchResults, researchAgents, pc, refineWithThinking, elapsed,
                   progressPercent, pollResult, events, result, calls, returns, cancelPc,
                   deleted, submitResponse, apiKey, rejection, cancelResponse,
                   cancelRejection, poller>>

\* response.json() comes back
JsonReturn(b) ==
    /\ client.pc = "reading"
    /\ client' = AfterRequest([client EXCEPT !.fetched[Len(client.fetched)].body = b],
                              AfterJson(client.response.status, b))
    /\ UNCHANGED <<researchResults, researchAgents, pc, refineWithThinking, elapsed,
                   progressPercent, pollResult, events, result, calls, returns, cancelPc,
                   deleted, submitResponse, apiKey, rejection, cancelResponse,
                   cancelRejection, poller>>

\* sleep(POLL_INTERVAL) is over after d ms
ClientSleepReturn(d) ==
    /\ client.pc = "sleeping"
    /\ client.requests < MaxClientPolls
    /\ d = CLIENT_POLL_INTERVAL => client.requests + 1 < MaxClientPolls
    /\ client' = LoopOrTimeout([client EXCEPT !.elapsed = @ + d])
    /\ UNCHANGED <<researchResults, researchAgents, pc, refineWithThinking, elapsed,
                   progressPercent, pollResult, events, result, calls, returns, cancelPc,
                   deleted, submitResponse, apiKey, rejection, cancelResponse,
                   cancelRejection, poller>>

NextClient ==
    \/ \E m \in MaxWaitTimes : WaitStart(m)
    \/ \E o \in FetchOutcomes, d \in FetchTimes : FetchReturn(o, d)
    \/ \E b \in Bodies : JsonReturn(b)
    \/ \E d \in ClientSleepTimes : ClientSleepReturn(d)

SpecClient == Init /\ [][NextClient]_vars

\* ------------------------------------- the browser's poller (with retry)
\* DeepResearchApp.pollForResults: attempts and consecutiveFailures are the
\* locals of one call, timers the setTimeout(poll, ...) calls not yet fired,
\* delay the delay of the last one, continueOptions the continue panels in the
\* page, completions the calls of handleResearchComplete.  status is the job status of the last response that
\* was read and failedRequests the number of status requests that have failed
\* in a row (no response, a non-2xx response or an unreadable body).
MaxOvershoot == 2     \* polls followed past maxAttempts

pollInterval == 10000
maxAttempts == 360
maxConsecutiveFailures == 5
MaxBackoff == 30000

\* what fetch('/api/research/<id>') and response.json() can come back with
PollerFetchOutcomes == [kind : {"throw"}] \cup [kind : {"response"}, status : HttpStatuses]
PollerBodies ==
    [kind : {"invalid", "null"}]
    \cup [kind : {"object"}, status : {"processing", "completed", "failed", "cancelled"}]

\* Math.min(pollInterval * Math.pow(1.5, consecutiveFailures - 1), 30000)
BackoffDelay(failures) ==
    Min((pollInterval * 3 ^ (failures - 1)) \div 2 ^ (failures - 1), MaxBackoff)

\* setTimeout(poll, delay)
SetTimeout(p, delay) == [p EXCEPT !.pc = "waiting", !.timers = @ + 1, !.delay = delay]

\* the catch block of poll
PollCatch(p) ==
    LET failures == p.consecutiveFailures + 1
        p1 == [p EXCEPT !.consecutiveFailures = failures]
    IN IF failures < maxConsecutiveFailures
       THEN SetTimeout(p1, BackoffDelay(failures))
       ELSE [p1 EXCEPT !.pc = "stopped", !.continueOptions = @ + 1]

\* the try block of poll from the reading of apiResponse on, for a body that
\* is an object reporting the job status st; an exception thrown in the block
\* goes to the catch block of the same statement
PollTry(p, st) ==
    LET p0 == [p EXCEPT !.consecutiveFailures = 0, !.status = st, !.failedRequests = 0]
    IN IF st = "completed"
       THEN [p0 EXCEPT !.pc = "completed", !.completions = @ + 1]
       ELSE IF st = "failed"
       THEN PollCatch(p0)
       ELSE LET p1 == [p0 EXCEPT !.attempts = @ + 1]
            IN IF p1.attempts < maxAttempts
               THEN SetTimeout(p1, pollInterval)
               ELSE PollCatch(p1)

\* a status request that failed: the exception goes to the catch block
PollRequestFailed(p) == PollCatch([p EXCEPT !.failedRequests = @ + 1])

\* pollForResults(researchId): fresh locals, then poll() up to its fetch
StartPoll(p) ==
    [p EXCEPT !.pc = "fetching", !.attempts = 0, !.consecutiveFailures = 0,
              !.status = "none", !.failedRequests = 0]

\* startResearch calls pollForResults once the job is submitted
PollForResults ==
    /\ poller.pc = "idle"
    /\ poller' = StartPoll(poller)
    /\ UNCHANGED <<researchResults, researchAgents, pc, refineWithThinking, elapsed,
                   progressPercent, pollResult, events, result, calls, returns, cancelPc,
                   deleted, submitResponse, apiKey, rejection, client, cancelResponse,
                   cancelRejection>>

\* a timer set by setTimeout(poll, ...) fires: poll() runs up to its fetch
PollTimeout ==
    /\ poller.timers > 0
    /\ poller.attempts < maxAttempts + MaxOvershoot
    /\ poller' = [poller EXCEPT !.timers = @ - 1, !.pc = "fetching"]
    /\ UNCHANGED <<researchResults, researchAgents, pc, refineWithThinking, elapsed,
                   progressPercent, pollResult, events, result, calls, returns, cancelPc,
                   deleted, submitResponse, apiKey, rejection, client, cancelResponse,
                   cancelRejection>>

\* await fetch(...) comes back, up to await response.json()
PollFetchReturn(o) ==
    /\ poller.pc = "fetching"
    /\ o \in PollerFetchOutcomes
    /\ poller' = IF o.kind = "throw" \/ ~Ok(o.status)
                  THEN PollRequestFailed(poller)
                  ELSE [poller EXCEPT !.pc = "parsing"]
    /\ UNCHANGED <<researchResults, researchAgents, pc, refineWithThinking, elapsed,
                   progressPercent, pollResult, events, result, calls, returns, cancelPc,
                   deleted, submitResponse, apiKey, rejection, client, cancelResponse,
                   cancelRejection>>

\* await response.json() comes back: it throws on a body that is not JSON,
\* and apiResponse.data throws on the body null
PollJsonReturn(b) ==
    /\ poller.pc = "parsing"
    /\ b \in PollerBodies
    /\ poller' = IF b.kind \in {"invalid", "null"}
                  THEN PollRequestFailed(poller)
                  ELSE PollTry(poller, b.status)
    /\ UNCHANGED <<researchResults, researchAgents, pc, refineWithThinking, elapsed,
                   progressPercent, pollResult, events, result, calls, returns, cancelPc,
                   deleted, submitResponse, apiKey, rejection, client, cancelResponse,
                   cancelRejection>>

\* the continue button of a continue panel: resumePolling(researchId)
ResumePolling ==
    /\ poller.continueOptions > 0
    /\ poller' = StartPoll([poller EXCEPT !.continueOptions = @ - 1])
    /\ UNCHANGED <<researchResults, researchAgents, pc, refineWithThinking, elapsed,
                   progressPercent, pollResult, events, result, calls, returns, cancelPc,
                   deleted, submitResponse, apiKey, rejection, client, cancelResponse,
                   cancelRejection>>

\* the other button of a continue panel: waitForManualCheck(researchId)
WaitForManualCheck ==
    /\ poller.continueOptions > 0
    /\ poller' = [poller EXCEPT !.continueOptions = @ - 1, !.pc = "manual"]
    /\ UNCHANGED <<researchResults, researchAgents, pc, refineWithThinking, elapsed,
                   progressPercent, pollResult, events, result, calls, returns, cancelPc,
                   deleted, submitResponse, apiKey, rejection, client, cancelResponse,
                   cancelRejection>>

NextPoller ==
    \/ PollForResults
    \/ PollTimeout
    \/ \E o \in PollerFetchOutcomes : PollFetchReturn(o)
    \/ \E b \in PollerBodies : PollJsonReturn(b)
    \/ ResumePolling
    \/ WaitForManualCheck

SpecPoller == Init /\ [][NextPoller]_vars

\* ============================================================ properties
TerminalStatuses == {"completed", "failed", "cancelled"}
Registered(j) == j \in DOMAIN researchResults
HasEvent(es, t) == \E i \in 1..Len(es) : es[i].type = t
CountEvents(es, t) == Cardinality({i \in 1..Len(es) : es[i].type = t})
Finished(j) == result[j] # NoResult
\* the i-th remote call of job j's task came back with an exception
Threw(j, i, call) ==
    /\ i \in 1..Len(returns[j])
    /\ returns[j][i].call = call
    /\ returns[j][i].outcome.kind = "throw"
PollReturns(j) == Cardinality({i \in 1..Len(returns[j]) : returns[j][i].call = "poll"})

\* C1: once the registry status of a job is completed, failed or cancelled,
\* no step changes it (removal of the entry by delete aside); in particular
\* the result written by the finishing task does not replace cancelled.
C1_TerminalStatusIsFinal ==
    [][\A j \in Jobs :
          (/\ Registered(j)
           /\ researchResults[j].status \in TerminalStatuses
           /\ j \in DOMAIN researchResults')
          => researchResults'[j].status = researchResults[j].status]_vars

\* C2: from the step that accepts a cancel request on, every status read of
\* the job returns cancelled (as long as the entry exists), whatever the
\* remote cancel call does.
C2_ReadsAfterCancelSeeCancelled ==
    \A j \in Jobs :
        (cancelPc[j] # "none" /\ Registered(j))
        => GetStatus(j).data.status = "cancelled"

\* C3: after the delete of an existing job, getStatus of its id is NotFound
\* in every later state.
C3_DeletedStaysNotFound ==
    \A j \in deleted : GetStatus(j).code = 404

\* C4: the progress values of the events passed to onEvent for one job are
\* non-decreasing in emission order.
C4_ProgressNonDecreasing ==
    \A j \in Jobs :
        \A i, k \in 1..Len(events[j]) :
            (i < k /\ Has(events[j][i], "progress") /\ Has(events[j][k], "progress"))
            => events[j][i].progress <= events[j][k].progress

\* a finished run whose progress reached the cap twice and then the
\* refinement's 95
C4_Witness ==
    /\ pc["research_1"] = "done"
    /\ \E i \in 1..Len(events["research_1"]) :
          /\ i + 2 <= Len(events["research_1"])
          /\ events["research_1"][i] = ProgressEvent(90)
          /\ events["research_1"][i + 1] = ProgressEvent(90)
    /\ \E k \in 1..Len(events["research_1"]) : events["research_1"][k] = ProgressEvent(95)

\* C5: the result of a job carries progress 100 if and only if its status is
\* completed.
C5_Progress100IffCompleted ==
    \A j \in Jobs :
        Finished(j) =>
            ((Has(result[j], "progress") /\ result[j].progress = 100)
             <=> result[j].status = "completed")

\* C6: the events of a job that ended completed are start, one or more
\* progress events, content, complete, and complete is the last one.
C6_CompletedEventOrder ==
    \A j \in Jobs :
        (Finished(j) /\ result[j].status = "completed") =>
            LET es == events[j] n == Len(events[j]) IN
            /\ n >= 4
            /\ es[1].type = "start"
            /\ \A i \in 2..(n - 2) : es[i].type = "progress"
            /\ es[n - 1].type = "content"
            /\ es[n].type = "complete"

\* C7: a job that ended failed emitted exactly one error event, carrying the
\* error text of the result, as its last event, after start and progress
\* events only.
C7_FailedEmitsOneError ==
    \A j \in Jobs :
        (Finished(j) /\ result[j].status = "failed") =>
            LET es == events[j] n == Len(events[j]) IN
            /\ n >= 2
            /\ es[1].type = "start"
            /\ \A i \in 2..(n - 1) : es[i].type = "progress"
            /\ es[n] = ErrorEvent(result[j].error)
            /\ CountEvents(es, "error") = 1

\* C8: the events of one job never contain both an error event and a content
\* or complete event.
C8_ErrorExcludesContent ==
    \A j \in Jobs :
        ~(/\ HasEvent(events[j], "error")
          /\ (HasEvent(events[j], "content") \/ HasEvent(events[j], "complete")))

\* a run that ended with an error event after polling had made progress, and
\* carries no content or complete event
C8_Witness ==
    /\ pc["research_1"] = "done"
    /\ HasEvent(events["research_1"], "error")
    /\ PollReturns("research_1") >= 2
    /\ ~HasEvent(events["research_1"], "content")

\* C9: when the create call throws, the job is over at once: result and
\* registry entry are failed with a non-empty error, exactly one create call
\* was made and no poll is ever issued.
C9_CreateFailureIsFinal ==
    \A j \in Jobs :
        Threw(j, 1, "create") =>
            /\ pc[j] = "done"
            /\ result[j].status = "failed"
            /\ Has(result[j], "error") /\ result[j].error # ""
            /\ Registered(j) =>
                  /\ researchResults[j].status = "failed"
                  /\ Has(researchResults[j], "error") /\ researchResults[j].error # ""
            /\ events[j][Len(events[j])] = ErrorEvent(result[j].error)
            /\ calls[j].create = 1
            /\ calls[j].poll = 0
            /\ Len(returns[j]) = 1

\* the create call timed out
C9_Witness ==
    /\ Threw("research_1", 1, "create")
    /\ returns["research_1"][1].outcome.message = "timeout of 30000ms exceeded"
    /\ pc["research_1"] = "done"

\* C10: when a status poll throws, it is the last remote call of the job:
\* research() has returned a failed result carrying the error text, the
\* registry records it, and no further poll is issued.
C10_PollFailureIsFinal ==
    \A j \in Jobs :
        \A i \in 1..Len(returns[j]) :
            Threw(j, i, "poll") =>
                /\ i = Len(returns[j])
                /\ pc[j] = "done"
                /\ Finished(j)
                /\ result[j].status = "failed"
                /\ result[j].error = returns[j][i].outcome.message
                /\ events[j][Len(events[j])] = ErrorEvent(returns[j][i].outcome.message)
                /\ Registered(j) =>
                      /\ researchResults[j].status = "failed"
                      /\ researchResults[j].error = returns[j][i].outcome.message
                /\ calls[j].poll = PollReturns(j)
                /\ calls[j].refine = 0

\* the third poll failed after two polls that reported processing
C10_Witness ==
    /\ Len(returns["research_1"]) = 4
    /\ Threw("research_1", 4, "poll")
    /\ pc["research_1"] = "done"

\* the remote calls of job j's task so far: a successful create, then polls
\* that all reported processing
OnlyProcessing(j) ==
    /\ Len(returns[j]) >= 1
    /\ returns[j][1].outcome.kind = "ok"
    /\ \A i \in 2..Len(returns[j]) :
          returns[j][i].call = "poll" /\ returns[j][i].outcome.kind = "processing"

\* C11 as stated: no poll is started once the elapsed time has reached the
\* deadline.
C11_NoPollAfterDeadline ==
    \A j \in Jobs : pc[j] = "polling" => elapsed[j] < MAX_RESEARCH_TIME

\* C11 as amended: the deadline is looked at only at the top of an iteration,
\* before the sleep: an iteration (sleep, then poll) starts only while the
\* elapsed time is below the deadline, so at most the poll of the iteration
\* under way is issued after the deadline; when only processing was reported
\* and the deadline has passed at the top of the loop, the job is over, failed
\* with the fixed timeout message and not completed.
C11_DeadlineEndsPolling ==
    \A j \in Jobs :
        /\ pc[j] = "sleeping" => elapsed[j] < MAX_RESEARCH_TIME
        /\ (OnlyProcessing(j) /\ elapsed[j] >= MAX_RESEARCH_TIME /\ pc[j] # "polling")
           => /\ pc[j] = "done"
              /\ result[j].status = "failed"
              /\ result[j].error = TimedOutMsg
              /\ calls[j].poll = PollReturns(j)
        /\ (OnlyProcessing(j) /\ Finished(j)) => result[j].status # "completed"

\* three polls reported processing, the last one after the deadline
C11_Witness ==
    /\ OnlyProcessing("research_1")
    /\ PollReturns("research_1") = 3
    /\ pc["research_1"] = "done"
    /\ result["research_1"].error = TimedOutMsg

\* Every network call of the job's task eventually returns or fails, and the
\* timer of sleep() eventually fires.
AgentFairness ==
    /\ WF_vars(\E o \in CreateOutcomes, c \in InteractionIdInEvent : CreateReturn(AgentJob, o, c))
    /\ WF_vars(\E d \in SleepTimes : SleepReturn(AgentJob, d, MaxPolls))
    /\ WF_vars(\E o \in PollOutcomes : PollReturn(AgentJob, o))
    /\ WF_vars(\E o \in RefineOutcomes : RefineReturn(AgentJob, o))

SpecAgentFair == SpecAgent /\ AgentFairness

\* C12: a submitted job eventually ends: research() returns, after finitely
\* many polls, a result whose status is completed or failed, whatever the
\* remote service answers.
C12_EveryJobEnds ==
    (pc[AgentJob] = "creating")
    ~> (/\ pc[AgentJob] = "done"
        /\ result[AgentJob].status \in {"completed", "failed"}
        /\ calls[AgentJob].poll = PollReturns(AgentJob))

\* the remote service answered processing to every poll until the deadline
C12_Witness ==
    /\ OnlyProcessing(AgentJob)
    /\ PollReturns(AgentJob) = MaxPolls
    /\ pc[AgentJob] = "done"
    /\ result[AgentJob].status = "failed"

\* the refinement call of job j came back without a usable answer: an
\* exception, an error result, no candidate, or no part that is not a thought
RefineFailed(j) ==
    /\ Len(returns[j]) >= 1
    /\ LET last == returns[j][Len(returns[j])] IN
       /\ last.call = "refine"
       /\ ~(last.outcome.kind = "ok" /\ Len(AnswerParts(last.outcome.parts)) > 0)

\* C13: when the refinement call fails, the job still ends completed and its
\* content is the content of the completed research (followed by the metadata
\* footer every completed job gets): no second content event is emitted, and
\* the registry entry carries the same status and content.
C13_RefineFailureKeepsContent ==
    \A j \in Jobs :
        RefineFailed(j) =>
            /\ pc[j] = "done"
            /\ result[j].status = "completed"
            /\ pollResult[j].content # <<>>
            /\ result[j].content = pollResult[j].content \o <<MetadataFooter>>
            /\ CountEvents(events[j], "content") = 1
            /\ ~HasEvent(events[j], "error")
            /\ Registered(j) =>
                  /\ researchResults[j].status = "completed"
                  /\ researchResults[j].content = result[j].content

\* the refinement call threw after a research that returned two fragments
C13_Witness ==
    /\ RefineFailed("research_1")
    /\ returns["research_1"][Len(returns["research_1"])].outcome.kind = "throw"
    /\ pollResult["research_1"].content = <<"A", BlankLine, "B">>
    /\ result["research_1"].status = "completed"

\* C14: once a cancel request for a job has been accepted, its polling loop
\* starts no further iteration (sleep, then status poll); only the iteration
\* under way is finished.
C14_NoIterationAfterCancel ==
    [][\A j \in Jobs :
          (cancelPc[j] # "none" /\ pc'[j] = "sleeping") => pc[j] = "sleeping"]_vars

Statuses == {"pending", "processing", "completed", "failed", "cancelled"}

\* C15: every registry entry has one of the five statuses; a completed entry
\* has a non-empty content, a failed entry a non-empty error, and an entry
\* with an error is failed.
C15_RegistryEntryInvariant ==
    \A j \in DOMAIN researchResults :
        LET e == researchResults[j] IN
        /\ e.status \in Statuses
        /\ e.status = "completed" => (Has(e, "content") /\ e.content # <<>>)
        /\ e.status = "failed" => (Has(e, "error") /\ e.error # "")
        /\ Has(e, "error") => e.status = "failed"

\* the registry holds a completed entry, and a failed one written from a
\* failure reported by the remote service
C15_Witness ==
    /\ Registered("research_1") /\ researchResults["research_1"].status = "completed"
    /\ Registered("research_2") /\ researchResults["research_2"].status = "failed"
    /\ researchResults["research_2"].error = ResearchFailedMsg

\* C16: getStatus answers NotFound exactly for the ids that are not in the
\* registry; otherwise it answers with the entry as last written: once the
\* job's task has stored its result that is this result, and for a failed job
\* it carries status failed and the error.
C16_GetStatusReturnsEntry ==
    \A j \in Jobs :
        /\ GetStatus(j).code = 404 <=> ~Registered(j)
        /\ Registered(j) =>
              /\ GetStatus(j).code = 200
              /\ GetStatus(j).data = researchResults[j]
              /\ Finished(j) => GetStatus(j).data = result[j]
              /\ (Finished(j) /\ result[j].status = "failed") =>
                    /\ GetStatus(j).data.status = "failed"
                    /\ GetStatus(j).data.error = result[j].error

\* one job has failed and is in the registry, the other was deleted
C16_Witness ==
    /\ Registered("research_1")
    /\ Finished("research_1") /\ result["research_1"].status = "failed"
    /\ "research_2" \in deleted /\ ~Registered("research_2")

\* the pair of Maps of the current state
Maps == [results |-> researchResults, agents |-> researchAgents]

\* C17: delete is idempotent: for an id that is not in the registry it
\* answers success and leaves both Maps as they are, and a second delete of
\* the same id answers success and leaves the Maps as the first one left them.
C17_DeleteIdempotent ==
    \A j \in Jobs :
        LET once == DeleteEffect(Maps, j)
            twice == DeleteEffect([results |-> once.results, agents |-> once.agents], j)
        IN /\ once.response.success
           /\ j \notin DOMAIN once.results
           /\ ~Registered(j) => (once.results = researchResults /\ once.agents = researchAgents)
           /\ twice.response.success
           /\ twice.results = once.results
           /\ twice.agents = once.agents

\* an entry was deleted while the other job is still registered and running
C17_Witness ==
    /\ "research_1" \in deleted /\ ~Registered("research_1")
    /\ Registered("research_2") /\ "research_2" \in researchAgents

\* the ids of the jobs in a listing
ListedIds(l) == {l[i].id : i \in 1..Len(l)}

\* C18: list answers with min(n, 20) of the n registered jobs, none of them
\* older than a job it left out, each one a registry entry listed once, and
\* adjacent ones in non-increasing createdAt order.
C18_ListNewestFirstTruncated ==
    LET l == ListResults(researchResults)
        n == Cardinality(DOMAIN researchResults)
    IN /\ Len(l) = Min(n, ListLimit)
       /\ Cardinality(ListedIds(l)) = Len(l)
       /\ \A i \in 1..Len(l) :
              /\ l[i].id \in DOMAIN researchResults
              /\ l[i] = researchResults[l[i].id]
       /\ \A i \in 1..Len(l) : \A k \in DOMAIN researchResults \ ListedIds(l) :
              l[i].createdAt >= researchResults[k].createdAt
       /\ \A i \in 1..(Len(l) - 1) : l[i].createdAt >= l[i + 1].createdAt

\* more jobs than the limit are registered, and the one left out is strictly
\* older than the newest
C18_Witness ==
    /\ Cardinality(DOMAIN researchResults) > ListLimit
    /\ Len(ListResults(researchResults)) = ListLimit
    /\ researchResults[1].createdAt < researchResults[ListLimit + 1].createdAt
    /\ 1 \notin ListedIds(ListResults(researchResults))

\* C19: submit registers the job under its id with status processing and
\* progress 0 and answers the caller with that id before the create call is
\* issued: once the task is under way the answer has been sent, and it was
\* sent with no create call issued and the fresh entry in the registry.
C19_SubmitAnswersBeforeCreate ==
    \A j \in Jobs :
        /\ pc[j] # "idle" <=> submitResponse[j].answered
        /\ submitResponse[j].answered =>
              /\ submitResponse[j].data = [id |-> j, status |-> "processing"]
              /\ submitResponse[j].created = 0
              /\ submitResponse[j].entry = [id |-> j, status |-> "processing", progress |-> 0]

\* the caller has its answer while the create call is still outstanding
C19_Witness ==
    /\ pc["research_1"] = "creating"
    /\ calls["research_1"].create = 1
    /\ returns["research_1"] = <<>>
    /\ submitResponse["research_1"].answered

\* C20: an id leaves the registry only in a step of the delete route: no
\* submit, event, stored result (completed or failed) or cancel removes an
\* entry.
C20_OnlyDeleteRemoves ==
    [][\A j \in Jobs :
          (j \in DOMAIN researchResults /\ j \notin DOMAIN researchResults') => Delete(j)]_vars

\* one job's task has stored its result and the other job was cancelled, and
\* both are in the registry without ever having been deleted
C20_Witness ==
    /\ deleted = {}
    /\ Finished("research_1") /\ Registered("research_1")
    /\ researchResults["research_1"] = result["research_1"]
    /\ Registered("research_2") /\ researchResults["research_2"].status = "cancelled"

\* C21: with no credential configured, building the transport client or the
\* orchestrator throws, and every submit request is answered with an error:
\* no registry entry exists, no task was started and no remote call was made.
C21_NoCredentialRejects ==
    apiKey = "" =>
        /\ NewGeminiClient([apiKey |-> apiKey]).kind = "threw"
        /\ NewDeepResearchAgent([apiKey |-> apiKey]).kind = "threw"
        /\ CreateDeepResearchAgent("", apiKey).kind = "threw"
        /\ DOMAIN researchResults = {}
        /\ researchAgents = {}
        /\ \A j \in Jobs : pc[j] = "idle" /\ calls[j] = NoCalls /\ ~submitResponse[j].answered
        /\ rejection.answered => (rejection.code = 500 /\ ~rejection.success)

\* a submit request was turned down for the missing credential
C21_Witness ==
    /\ apiKey = ""
    /\ rejection.answered
    /\ rejection.error = "NO_API_KEY"

\* the request calls that have returned
Returned == 1..Len(client.outcomes)

\* C22: every call of request makes one fetch and returns one outcome:
\* success with the data for a 2xx response, HTTP_<status> for a non-2xx
\* response, TIMEOUT when the timer aborted the fetch, NETWORK_ERROR for any
\* other failure.
C22_RequestOneOutcome ==
    /\ client.fetches = client.requests
    /\ Len(client.outcomes) =
          client.requests - (IF client.pc \in {"fetching", "reading"} THEN 1 ELSE 0)
    /\ \A i \in Returned :
          LET f == client.fetched[i].fetch
              b == client.fetched[i].body
              r == client.outcomes[i]
          IN CASE f.kind = "abort" -> ~r.success /\ r.error.code = <<"TIMEOUT">>
               [] f.kind = "response" /\ ~Ok(f.status) ->
                      ~r.success /\ r.error.code = HttpCode(f.status)
               [] f.kind = "response" /\ Ok(f.status) /\ b.kind # "invalid" ->
                      r.success /\ (IF b.kind = "null" THEN IsNull(r.data) ELSE r.data = b.value)
               [] OTHER -> ~r.success /\ r.error.code = <<"NETWORK_ERROR">>

\* the registry entry of k, or NoResult when there is none
Entry(k) == IF k \in DOMAIN researchResults THEN researchResults[k] ELSE NoResult

\* the step is one of job j's task, or a cancel or delete of j
ActedOn(j) ==
    \/ pc'[j] # pc[j]
    \/ cancelPc'[j] # cancelPc[j]
    \/ calls'[j] # calls[j]
    \/ j \in DOMAIN researchResults /\ j \notin DOMAIN researchResults'

\* C23: a step of one job's task and a cancel or delete of that job leave the
\* registry entry and the stored agent of every other job as they were.
C23_OtherJobsUntouched ==
    [][\A j \in Jobs : ActedOn(j) =>
          \A k \in Jobs \ {j} :
              /\ Entry(k)' = Entry(k)
              /\ (k \in researchAgents') <=> (k \in researchAgents)]_vars

\* two jobs are in flight, one polling and one waiting for its create call
C23_Witness ==
    /\ pc["research_1"] = "creating" /\ pc["research_2"] = "polling"
    /\ Registered("research_1") /\ Registered("research_2")
    /\ researchResults["research_1"].status = "processing"
    /\ researchResults["research_2"].status = "processing"
    /\ researchResults["research_1"].progress < researchResults["research_2"].progress

\* the outputs of the poll that reported job j completed (<<>> if none did)
CompletedPolls(j) ==
    {i \in 1..Len(returns[j]) :
        returns[j][i].call = "poll" /\ returns[j][i].outcome.kind = "completed"}
RemoteCompleted(j) == CompletedPolls(j) # {}
CompletedOutputs(j) ==
    IF RemoteCompleted(j)
    THEN returns[j][CHOOSE i \in CompletedPolls(j) : TRUE].outcome.outputs
    ELSE <<>>

\* the outputs that have a text, in the service's order
Fragments(outputs) == SelectSeq(outputs, LAMBDA o : o # "")

\* c starts with the fragments, a blank line between consecutive ones
StartsWithFragments(c, texts) ==
    /\ texts # <<>> => Len(c) >= 2 * Len(texts) - 1
    /\ \A i \in 1..Len(texts) : c[2 * i - 1] = texts[i]
    /\ \A i \in 1..(Len(texts) - 1) : c[2 * i] = BlankLine

\* the refinement call of job j came back with a non-thinking part
Refined(j) ==
    /\ Len(returns[j]) >= 1
    /\ LET last == returns[j][Len(returns[j])] IN
       /\ last.call = "refine"
       /\ last.outcome.kind = "ok" /\ Len(AnswerParts(last.outcome.parts)) > 0

\* C24: when the remote service reported completion, the job ends completed
\* and its content starts with every output that has a text, in the service's
\* order, a blank line between consecutive ones.
C24_ContentHasEveryFragment ==
    \A j \in Jobs :
        (Finished(j) /\ RemoteCompleted(j)) =>
            /\ result[j].status = "completed"
            /\ StartsWithFragments(result[j].content, Fragments(CompletedOutputs(j)))

\* C24 as it holds: the job ends completed; unless a refinement replaced the
\* content, the content is the outputs that have a text, in order, a blank
\* line between consecutive ones (the fixed message if there is none),
\* followed by the metadata footer, and the content event carried that text.
C24_ContentHasEveryFragmentUnlessRefined ==
    \A j \in Jobs :
        (Finished(j) /\ RemoteCompleted(j)) =>
            LET texts == Fragments(CompletedOutputs(j))
                n == IF texts = <<>> THEN 1 ELSE 2 * Len(texts) - 1
            IN /\ result[j].status = "completed"
               /\ StartsWithFragments(pollResult[j].content, texts)
               /\ Len(pollResult[j].content) = n
               /\ texts = <<>> => pollResult[j].content = <<NoContentMsg>>
               /\ \E i \in 1..Len(events[j]) :
                     events[j][i] = ContentEvent(pollResult[j].content)
               /\ ~Refined(j) =>
                     /\ StartsWithFragments(result[j].content, texts)
                     /\ result[j].content = pollResult[j].content \o <<MetadataFooter>>

\* a job without refinement ended completed after the service returned two
\* texts with an output without text between them
C24_Witness ==
    /\ Finished("research_1") /\ RemoteCompleted("research_1")
    /\ ~refineWithThinking["research_1"]
    /\ CompletedOutputs("research_1") = <<"A", "", "B">>
    /\ result["research_1"].content = <<"A", BlankLine, "B", MetadataFooter>>

\* C25: the answer of cancel is positive exactly when the remote cancel call
\* succeeded (negative when it failed, raised, or was not made for lack of a
\* remote id), and the local status was set to cancelled in every case.
C25_CancelReportsRemoteOutcome ==
    \A j \in Jobs :
        cancelResponse[j].answered =>
            /\ cancelResponse[j].success <=> cancelResponse[j].remote = "success"
            /\ cancelPc[j] = "done"

\* the events of job j emitted before its complete event (all of them when
\* there is none)
BeforeComplete(j) ==
    {i \in 1..Len(events[j]) : \A k \in 1..i : events[j][k].type # "complete"}

\* the progress events of pollForCompletion: the ones before the complete
\* event that follow start, progress 5 and progress 10
LoopProgress(j) == {i \in BeforeComplete(j) : i >= 4 /\ events[j][i].type = "progress"}

\* C26: each progress event of the polling loop has value min(p + 10, 90), p
\* being the progress value emitted just before it; every progress event
\* before the complete event is at most 90, and none is 100.
C26_LoopProgressStepsToCap ==
    \A j \in Jobs :
        /\ \A i \in LoopProgress(j) :
              /\ events[j][i - 1].type = "progress"
              /\ events[j][i].progress = Min(events[j][i - 1].progress + 10, 90)
        /\ \A i \in BeforeComplete(j) :
              events[j][i].type = "progress" => events[j][i].progress <= 90
        /\ \A i \in 1..Len(events[j]) :
              events[j][i].type = "progress" => events[j][i].progress # 100

\* the loop went from 10 to the cap, stayed there for a poll, and the job
\* completed without refinement
C26_Witness ==
    LET es == events["research_1"] IN
    /\ Finished("research_1") /\ result["research_1"].status = "completed"
    /\ ~refineWithThinking["research_1"]
    /\ Cardinality(LoopProgress("research_1")) = MaxPolls
    /\ es[3] = ProgressEvent(10) /\ es[4] = ProgressEvent(20)
    /\ es[Len(es) - 3] = ProgressEvent(90) /\ es[Len(es) - 2] = ProgressEvent(90)
    /\ es[Len(es)].type = "complete"

\* the create call of job j came back with a remote id
CreateReturnedId(j) ==
    /\ Len(returns[j]) >= 1
    /\ returns[j][1].call = "create"
    /\ returns[j][1].outcome.kind = "ok"
    /\ returns[j][1].outcome.hasId

\* C27: a status poll or a remote cancel call is issued for a job only after
\* its create call returned a remote id; a cancel request for an entry without
\* a remote id makes no remote call and sets the status to cancelled.
C27_RemoteIdBeforePollOrCancel ==
    [][\A j \in Jobs :
          /\ (calls'[j].poll > calls[j].poll \/ calls'[j].cancel > calls[j].cancel)
                => CreateReturnedId(j)
          /\ (cancelPc[j] = "none" /\ cancelPc'[j] # "none") =>
                /\ researchResults'[j].status = "cancelled"
                /\ ~Has(researchResults[j], "interactionId") =>
                      (calls'[j].cancel = calls[j].cancel /\ cancelPc'[j] = "done")]_vars

\* C28: the refinement call is issued at most once per job, and only when the
\* flag was set at submission and the remote research was reported completed;
\* a job whose research failed, raised or ran into the deadline has none.
C28_RefineOnceOnlyIfCompleted ==
    \A j \in Jobs :
        /\ calls[j].refine <= 1
        /\ calls[j].refine = 1 => (refineWithThinking[j] /\ RemoteCompleted(j))
        /\ (Finished(j) /\ ~RemoteCompleted(j)) => calls[j].refine = 0
        /\ (Finished(j) /\ ~refineWithThinking[j]) => calls[j].refine = 0

\* a job with the flag set was refined once after its research completed on
\* the second poll
C28_Witness ==
    /\ Finished("research_1")
    /\ refineWithThinking["research_1"]
    /\ calls["research_1"].refine = 1
    /\ calls["research_1"].poll = 2
    /\ returns["research_1"][Len(returns["research_1"])].call = "refine"

\* the refinement call of job j came back with a list of parts
RefineSucceeded(j) ==
    /\ Len(returns[j]) >= 1
    /\ returns[j][Len(returns[j])].call = "refine"
    /\ returns[j][Len(returns[j])].outcome.kind = "ok"
RefineParts(j) == returns[j][Len(returns[j])].outcome.parts

\* C29: when the refinement call succeeds, the content is the texts of the
\* returned parts that are not marked as thinking, in their order (joined by
\* a line break, the footer after them); when no returned part is unmarked,
\* the content is the research content as it was.
C29_RefinedContentFromAnswerParts ==
    \A j \in Jobs :
        RefineSucceeded(j) =>
            LET answers == SelectSeq(RefineParts(j), LAMBDA p : ~p.thought)
                c == result[j].content
                n == Len(answers)
            IN IF n > 0
               THEN /\ c = [i \in 1..(2 * n) |->
                              IF i = 2 * n THEN MetadataFooter
                              ELSE IF i % 2 = 1 THEN answers[(i + 1) \div 2].text
                              ELSE NewLine]
                    /\ events[j][Len(events[j])] = ContentEvent(SubSeq(c, 1, 2 * n - 1))
               ELSE /\ c = pollResult[j].content \o <<MetadataFooter>>
                    /\ CountEvents(events[j], "content") = 1

\* the refinement returned an answer, a thinking part and another answer
C29_Witness ==
    /\ RefineSucceeded("research_1")
    /\ RefineParts("research_1") = <<AnswerPart1, ThoughtPart, AnswerPart2>>
    /\ result["research_1"].content = <<"R1", NewLine, "R2", MetadataFooter>>

\* job j's entry is in the registry with status processing
Processing(j) == Registered(j) /\ researchResults[j].status = "processing"

C31_EntryStoredUnderOwnId ==
    \A k \in DOMAIN researchResults : researchResults[k].id = k

\* the step answers a cancel request for id j with a rejection
CancelRejectedNow(j) == cancelRejection'[j] # cancelRejection[j]
\* the step marks the entry of j cancelled: a cancel request was accepted
CancelAcceptedNow(j) ==
    /\ j \in DOMAIN researchResults'
    /\ researchResults'[j].status = "cancelled"
    /\ ~(j \in DOMAIN researchResults /\ researchResults[j].status = "cancelled")
\* a rejection writes nothing and calls nothing
CancelRejectionIsSilent ==
    /\ researchResults' = researchResults
    /\ researchAgents' = researchAgents
    /\ calls' = calls
    /\ cancelPc' = cancelPc
    /\ pc' = pc

\* C32: a cancel request for an unknown id fails with NotFound, and a cancel
\* request for a job that is not processing (completed, failed or cancelled)
\* is rejected with an error; in both cases the registry and the agent map
\* are unchanged and no remote call is made.
C32_CancelRejections ==
    [][\A j \in Jobs :
          /\ CancelAcceptedNow(j) => Processing(j)
          /\ CancelRejectedNow(j) =>
                /\ CancelRejectionIsSilent
                /\ ~cancelRejection'[j].success
                /\ ~Registered(j) => cancelRejection'[j].error = "NOT_FOUND"
                /\ Registered(j) => researchResults[j].status \in TerminalStatuses
      ]_vars

\* C32 as amended: with the credential configured, a cancel request for an
\* unknown id is answered 404 NOT_FOUND and one for a job that is not
\* processing 400 NOT_PROCESSING; without the credential every cancel request
\* is answered 500 NO_API_KEY.  A rejection leaves the registry and the agent
\* map unchanged and makes no remote call, and only a processing job is
\* cancelled.
C32_CancelRejectionsWithCredential ==
    [][\A j \in Jobs :
          /\ CancelAcceptedNow(j) => Processing(j)
          /\ CancelRejectedNow(j) =>
                /\ CancelRejectionIsSilent
                /\ ~cancelRejection'[j].success
                /\ apiKey = "" =>
                      cancelRejection'[j] = CancelError(500, "NO_API_KEY")
                /\ (apiKey # "" /\ ~Registered(j)) =>
                      cancelRejection'[j] = CancelError(404, "NOT_FOUND")
                /\ (apiKey # "" /\ Registered(j)) =>
                      /\ researchResults[j].status \in TerminalStatuses
                      /\ cancelRejection'[j] = CancelError(400, "NOT_PROCESSING")
      ]_vars

\* a cancel request for the completed job was answered NOT_PROCESSING and one
\* for an id that was never issued NOT_FOUND
C32_Witness ==
    /\ Registered("research_1") /\ researchResults["research_1"].status = "completed"
    /\ cancelRejection["research_1"] = CancelError(400, "NOT_PROCESSING")
    /\ ~Registered("research_2")
    /\ cancelRejection["research_2"] = CancelError(404, "NOT_FOUND")

\* the poller has a next poll ahead: a timer is set or a request is under way
PollAhead == poller.timers > 0 \/ poller.pc \in {"fetching", "parsing"}

\* C33: the browser's poller terminates: it has no further poll ahead once
\* the server has reported the job as failed, and none once it has made 360
\* polling attempts without completion, whatever the server does.
C33_PollerStops ==
    /\ poller.status = "failed" => ~PollAhead
    /\ poller.attempts >= maxAttempts => ~PollAhead

\* C34: in the browser's poller a failed status request is retried while
\* fewer than 5 requests have failed in a row, every successful response
\* resets the consecutive-failure count to zero, on the 5th failure in a row
\* the poller has no further poll ahead and offers the continue option, and
\* at most one next poll is scheduled at any time.
C34_RetryUntilFiveFailures ==
    /\ poller.failedRequests \in 1..(maxConsecutiveFailures - 1) => PollAhead
    /\ poller.failedRequests = 0 => poller.consecutiveFailures = 0
    /\ poller.failedRequests >= maxConsecutiveFailures => ~PollAhead
    /\ poller.pc = "stopped" =>
          /\ poller.failedRequests >= maxConsecutiveFailures
          /\ poller.continueOptions = 1
    /\ poller.timers <= 1

\* the outcome r of a status request carries a terminal state
TerminalState(r) ==
    r.success /\ ~IsNull(r.data) /\ Has(r.data, "state")
    /\ r.data.state \in {"COMPLETE", "FAILED"}
\* the status requests before the last one all succeeded without a terminal state
EarlierPollsWentOn(n) ==
    \A i \in 1..n : client.outcomes[i].success /\ ~TerminalState(client.outcomes[i])
SuccessfulPolls == Cardinality({i \in Returned : client.outcomes[i].success})

\* C35: waitForCompletion returns after finitely many polls with exactly one
\* of: the first failed status request, unchanged and with no further poll;
\* the first response whose state is COMPLETE or FAILED; a TIMEOUT error once
\* maxWaitTime has elapsed.  onProgress is called once per successful poll,
\* before the terminal-state check of that poll.
C35_WaitReturnsOneOutcome ==
    LET n == Len(client.outcomes) IN
    /\ client.pc # "threw"
    /\ client.onProgress = SuccessfulPolls
    /\ client.requests >= 1 =>
          (client.requests - 1) * CLIENT_POLL_INTERVAL < client.maxWaitTime
    /\ client.pc = "returned" =>
          /\ client.requests = n
          /\ \/ /\ n >= 1 /\ client.value = client.outcomes[n]
                /\ ~client.value.success
                /\ EarlierPollsWentOn(n - 1)
             \/ /\ n >= 1 /\ client.value = client.outcomes[n]
                /\ TerminalState(client.value)
                /\ EarlierPollsWentOn(n - 1)
             \/ /\ client.value = WaitTimedOut
                /\ client.elapsed >= client.maxWaitTime
                /\ EarlierPollsWentOn(n)
====
